---- MODULE Spec2Model ----
(***************************************************************************)
(* DTMF tone codec of dtmf.py: generate_dtmf_tone (synthesis of a          *)
(* normalised dual-sine 16-bit buffer) and identify_dtmf_key (FFT peak     *)
(* picking and tolerance matching against DTMF_FREQS).                     *)
(*                                                                         *)
(* Real numbers are modelled in fixed point.  A sine value is an integer   *)
(* in units of 1/SinScale, a frequency is a rational num/den, a spectral   *)
(* magnitude is compared through its exact integer square.                 *)
(***************************************************************************)
EXTENDS Integers, Sequences, FiniteSets, TLC

VARIABLES table,    \* the module-level dict DTMF_FREQS (insertion ordered)
          nanCast,  \* <<v>> once this build's float->int16 cast has made v of NaN
          pc,       \* pc[c]: position of caller c
          call,     \* call[c]: arguments of the call in flight
          local,    \* local[c]: local variables of the call in flight
          ret       \* ret[c]: outcome of the finished call

vars == <<table, nanCast, pc, call, local, ret>>

----------------------------------------------------------------------------
(* Bounds of the model *)

NumCallers == 2       \* callers running calls concurrently (SpecPar)
MaxLen == 4           \* longest externally supplied buffer (Spec)
MaxAmp == 1           \* externally supplied samples range over -MaxAmp..MaxAmp

----------------------------------------------------------------------------
(* DTMF_FREQS, dtmf.py lines 7-12.  A Python dict iterates in insertion    *)
(* order, so the table is a sequence of entries.                           *)

\* a faulty table: '0' typed with the row of '8'
DTMF_FREQS_Dup ==
  << [key |-> "1", low |-> 697, high |-> 1209],
     [key |-> "2", low |-> 697, high |-> 1336],
     [key |-> "3", low |-> 697, high |-> 1477],
     [key |-> "4", low |-> 770, high |-> 1209],
     [key |-> "5", low |-> 770, high |-> 1336],
     [key |-> "6", low |-> 770, high |-> 1477],
     [key |-> "7", low |-> 852, high |-> 1209],
     [key |-> "8", low |-> 852, high |-> 1336],
     [key |-> "9", low |-> 852, high |-> 1477],
     [key |-> "0", low |-> 852, high |-> 1336],
     [key |-> "*", low |-> 941, high |-> 1209],
     [key |-> "#", low |-> 941, high |-> 1477] >>

DTMF_FREQS ==
  << [key |-> "1", low |-> 697, high |-> 1209],
     [key |-> "2", low |-> 697, high |-> 1336],
     [key |-> "3", low |-> 697, high |-> 1477],
     [key |-> "4", low |-> 770, high |-> 1209],
     [key |-> "5", low |-> 770, high |-> 1336],
     [key |-> "6", low |-> 770, high |-> 1477],
     [key |-> "7", low |-> 852, high |-> 1209],
     [key |-> "8", low |-> 852, high |-> 1336],
     [key |-> "9", low |-> 852, high |-> 1477],
     [key |-> "0", low |-> 941, high |-> 1336],
     [key |-> "*", low |-> 941, high |-> 1209],
     [key |-> "#", low |-> 941, high |-> 1477] >>

\* a faulty key check: key.isdigit() and key in DTMF_FREQS
HasKeyDigits(tab, key) ==
  /\ key \in {"0", "1", "2", "3", "4", "5", "6", "7", "8", "9"}
  /\ \E i \in 1..Len(tab) : tab[i].key = key

\* key in DTMF_FREQS
HasKey(tab, key) == \E i \in 1..Len(tab) : tab[i].key = key

\* DTMF_FREQS[key]
Lookup(tab, key) == tab[CHOOSE i \in 1..Len(tab) : tab[i].key = key]

ValidKeys == { DTMF_FREQS[i].key : i \in 1..Len(DTMF_FREQS) }

----------------------------------------------------------------------------
(* Outcomes of a call *)

\* raise ValueError(f"Invalid key: ...") at line 17
InvalidKeyError == [kind |-> "raise", exc |-> "ValueError", at |-> "generate_dtmf_tone:17"]
\* np.max of a zero-size array at line 29 raises ValueError
ZeroSizeError == [kind |-> "raise", exc |-> "ValueError", at |-> "np.max:29"]
\* np.fft.fft of zero data points at line 68 raises ValueError
EmptyFFTError == [kind |-> "raise", exc |-> "ValueError", at |-> "np.fft.fft:68"]
\* dominant_freqs[i] beyond the array at lines 79-80 raises IndexError
IndexError == [kind |-> "raise", exc |-> "IndexError", at |-> "dominant_freqs:79"]
\* return None at line 83
NoneResult == [kind |-> "None"]
\* return key at line 81
KeyResult(key) == [kind |-> "key", key |-> key]
\* return samples, sample_rate at line 29
ToneResult(samples, rate) == [kind |-> "tone", samples |-> samples, sample_rate |-> rate]

NoValue == [kind |-> "none"]

----------------------------------------------------------------------------
(* Fixed-point arithmetic *)

Abs(x) == IF x < 0 THEN -x ELSE x

\* the array f of n elements, computed once, element by element
Array(f, n) == SubSeq(f, 1, n)

\* float -> integer conversion truncates toward zero
TruncDiv(a, b) == IF a >= 0 THEN a \div b ELSE -((-a) \div b)

\* rounding division by a positive scale
RoundDiv(a, b) == IF a >= 0 THEN (a + b \div 2) \div b ELSE -((-a + b \div 2) \div b)

\* np.int16 keeps the low 16 bits
Int16(v) == ((v + 32768) % 65536) - 32768

SinScale == 32768     \* one unit of a sine value is 1/SinScale
QuarterPi == 25736    \* pi/4 in units of 1/SinScale

\* sin(theta) for theta in [0, pi/4], theta in units of 1/SinScale
SinPoly(th) ==
  LET th2 == RoundDiv(th * th, SinScale)
      a == SinScale - RoundDiv(th2, 42)
      b == SinScale - RoundDiv(RoundDiv(th2 * a, SinScale), 20)
      c == SinScale - RoundDiv(RoundDiv(th2 * b, SinScale), 6)
  IN  RoundDiv(th * c, SinScale)

\* cos(theta) for theta in [0, pi/4]
CosPoly(th) ==
  LET th2 == RoundDiv(th * th, SinScale)
      a == SinScale - RoundDiv(th2, 30)
      b == SinScale - RoundDiv(RoundDiv(th2 * a, SinScale), 12)
      c == SinScale - RoundDiv(RoundDiv(th2 * b, SinScale), 2)
  IN  c

\* sin(2 pi u / (8 q)) for 0 <= u <= 2q (first quadrant)
SinQuadrant(u, q) ==
  IF u <= q THEN SinPoly(RoundDiv(u * QuarterPi, q))
  ELSE CosPoly(RoundDiv((2 * q - u) * QuarterPi, q))

\* np.sin(2 * np.pi * p / q), p and q integers, q > 0
SinTurn(p, q) ==
  LET u == 8 * (p % q)
  IN  IF u >= 4 * q
      THEN (IF u - 4 * q <= 2 * q THEN -SinQuadrant(u - 4 * q, q)
                                  ELSE -SinQuadrant(8 * q - u, q))
      ELSE (IF u <= 2 * q THEN SinQuadrant(u, q)
                          ELSE SinQuadrant(4 * q - u, q))

\* np.cos(2 * np.pi * p / q) = sin of a quarter turn more
CosTurn(p, q) == SinTurn(4 * (p % q) + q, 4 * q)

----------------------------------------------------------------------------
(* generate_dtmf_tone, dtmf.py lines 15-29 *)

\* a faulty sample count: the product rounded up
SampleCountCeil(sample_rate, dn, dd) == (sample_rate * dn + dd - 1) \div dd

\* int(sample_rate * duration), duration = dn/dd seconds
SampleCount(sample_rate, dn, dd) == TruncDiv(sample_rate * dn, dd)

\* lines 20-27: t = linspace(0, duration, N, endpoint=False) is n*duration/N,
\* and dtmf_tone[n] = sin(2 pi low t[n]) + sin(2 pi high t[n])
DtmfTone(low, high, N, dn, dd) ==
  Array([n \in 1..N |-> SinTurn(low * (n - 1) * dn, dd * N)
                          + SinTurn(high * (n - 1) * dn, dd * N)], N)

\* np.max(np.abs(dtmf_tone)), N >= 1
RECURSIVE PeakOf(_, _, _)
PeakOf(tone, lo, hi) ==
  IF lo = hi THEN Abs(tone[lo])
  ELSE LET mid == (lo + hi) \div 2
           l == PeakOf(tone, lo, mid)
           r == PeakOf(tone, mid + 1, hi)
       IN  IF l >= r THEN l ELSE r

\* line 29: np.int16(dtmf_tone / peak * 32767); 0/0 is NaN, and the cast of
\* NaN to int16 is whatever the build makes of it
Normalize(tone, peak, nan) ==
  Array([n \in 1..Len(tone) |->
           IF peak = 0 THEN nan ELSE Int16(TruncDiv(tone[n] * 32767, peak))],
        Len(tone))

----------------------------------------------------------------------------
(* identify_dtmf_key, dtmf.py lines 67-83 *)

\* smallest prime factor of n >= 2
RECURSIVE SmallestFactor(_, _)
SmallestFactor(n, d) ==
  IF d * d > n THEN n ELSE IF n % d = 0 THEN d ELSE SmallestFactor(n, d + 1)

\* exp(-2 pi i j / M) for j = 0..M-1, as <<cos, -sin>> in units of 1/SinScale
Twiddles(M) ==
  Array([j \in 1..M |-> << CosTurn(j - 1, M), -SinTurn(j - 1, M) >>], M)

\* (v * w) / SinScale for complex v (sample units) and twiddle w
CMulTw(v, w) ==
  << RoundDiv(v[1] * w[1] - v[2] * w[2], SinScale),
     RoundDiv(v[1] * w[2] + v[2] * w[1], SinScale) >>

\* the prime factors of n >= 1, smallest first
RECURSIVE Factors(_)
Factors(n) ==
  IF n = 1 THEN << >>
  ELSE LET p == SmallestFactor(n, 2) IN << p >> \o Factors(n \div p)

\* Mixed-radix decimation in time.  T holds, for every offset o < M/m, the
\* transform of the m samples x[o], x[o + M/m], ..., divided by m, at
\* T[o*m + k + 1].  One stage joins p of them into a transform of n = p*m
\* samples: output k of offset o is the mean over r < p of
\* W^(r k) * T[(o + r*M/n)*m + (k mod m) + 1], W = exp(-2 pi i / n).
RECURSIVE Butterfly(_, _, _, _, _, _, _, _, _)
Butterfly(T, tw, M, n, m, o, k, lo, hi) ==
  IF lo = hi
  THEN CMulTw(T[(o + lo * (M \div n)) * m + (k % m) + 1],
              tw[((lo * k) % n) * (M \div n) + 1])
  ELSE LET mid == (lo + hi) \div 2
           l == Butterfly(T, tw, M, n, m, o, k, lo, mid)
           r == Butterfly(T, tw, M, n, m, o, k, mid + 1, hi)
       IN  << l[1] + r[1], l[2] + r[2] >>

\* one stage: transforms of m samples joined p at a time
Stage(T, tw, M, m, p) ==
  Array([i \in 1..M |->
           LET a == Butterfly(T, tw, M, p * m, m, (i - 1) \div (p * m),
                              (i - 1) % (p * m), 0, p - 1)
           IN  << RoundDiv(a[1], p), RoundDiv(a[2], p) >>], M)

\* the stages for the factors f[i], f[i-1], ..., f[1], each computed in full
\* before the next
RECURSIVE Stages(_, _, _, _, _, _)
Stages(T, tw, M, m, f, i) ==
  IF i = 0 THEN T
  ELSE LET next == Stage(T, tw, M, m, f[i])
       IN  IF Len(next) = M THEN Stages(next, tw, M, m * f[i], f, i - 1) ELSE << >>

\* np.fft.fft(x) divided by len(x), as <<re, im>> pairs in sample units;
\* tw = Twiddles(Len(x))
FFT(x, tw) ==
  LET M == Len(x)
      f == Factors(M)
      T0 == Array([i \in 1..M |-> << x[i], 0 >>], M)
  IN  IF Len(T0) = M /\ Len(tw) = M THEN Stages(T0, tw, M, 1, f, Len(f)) ELSE << >>

\* the exact square of an integer |a| < 2^30 as <<hi, lo>>, value hi * 2^30 + lo
Square(a) ==
  LET b == Abs(a)
      ah == b \div 32768
      al == b % 32768
      t == ah * al
      lo == (t % 16384) * 65536 + al * al
  IN  << ah * ah + t \div 16384 + lo \div 1073741824, lo % 1073741824 >>

\* |z|^2 = re^2 + im^2 as <<hi, lo>>
Mag2(z) ==
  LET a == Square(z[1])
      b == Square(z[2])
      lo == a[2] + b[2]
  IN  << a[1] + b[1] + lo \div 1073741824, lo % 1073741824 >>

\* a < b for magnitudes
MagLess(a, b) == a[1] < b[1] \/ (a[1] = b[1] /\ a[2] < b[2])

\* the last index of np.argsort(mag) over lo..hi, skipping index skip:
\* the largest magnitude, and among equal ones the highest index
RECURSIVE ArgMax(_, _, _, _)
ArgMax(mag, lo, hi, skip) ==
  IF lo = hi THEN (IF lo = skip THEN 0 ELSE lo)
  ELSE LET mid == (lo + hi) \div 2
           l == ArgMax(mag, lo, mid, skip)
           r == ArgMax(mag, mid + 1, hi, skip)
       IN  IF r = 0 THEN l
           ELSE IF l = 0 THEN r
           ELSE IF MagLess(mag[r], mag[l]) THEN l ELSE r

\* The spectrum is computed in units of one sample step with every stage
\* rounded, so a magnitude below Resolution is not told from rounding error:
\* which of the bins below it the float spectrum ranks highest is left open.
Resolution == 8

\* np.argsort(fft_magnitude)[-2:], 1-based bin indexes, H = number of bins:
\* every outcome the sort can have given the resolution of the magnitudes
DominantIndices(mag, H) ==
  IF H = 0 THEN { << >> }
  ELSE LET first == ArgMax(mag, 1, H, 0)
           second == ArgMax(mag, 1, H, first)
           floor == << 0, Resolution * Resolution >>
           low == { k \in 1..H : MagLess(mag[k], floor) }
       IN  IF H = 1 THEN { << first >> }
           ELSE IF ~MagLess(mag[second], floor) THEN { << second, first >> }
           ELSE IF ~MagLess(mag[first], floor) THEN { << k, first >> : k \in low }
           ELSE { << k, l >> : k \in low, l \in low } \ { << k, k >> : k \in low }

\* a faulty spectrum: np.fft.fftfreq called with the number of kept bins
\* instead of the length of the buffer
DominantFreqsHalf(audio_data, sample_rate) ==
  LET M == Len(audio_data)
      H == M \div 2
      tw == Twiddles(M)
      spectrum == FFT(audio_data, tw)
      fft_magnitude == IF Len(spectrum) = M
                       THEN Array([k \in 1..H |-> Mag2(spectrum[k])], H)
                       ELSE << >>
      dominant == IF Len(fft_magnitude) = H THEN DominantIndices(fft_magnitude, H) ELSE { }
  IN  { [num |-> [i \in 1..Len(idx) |-> (idx[i] - 1) * sample_rate], den |-> H] :
          idx \in dominant }

\* lines 68-75: the dominant frequencies of audio_data, as numerators over
\* the common denominator M = len(audio_data): bin k is k * sample_rate / M
DominantFreqs(audio_data, sample_rate) ==
  LET M == Len(audio_data)
      H == M \div 2
      tw == Twiddles(M)
      spectrum == FFT(audio_data, tw)
      fft_magnitude == IF Len(spectrum) = M
                       THEN Array([k \in 1..H |-> Mag2(spectrum[k])], H)
                       ELSE << >>
      dominant == IF Len(fft_magnitude) = H THEN DominantIndices(fft_magnitude, H) ELSE { }
  IN  { [num |-> [i \in 1..Len(idx) |-> (idx[i] - 1) * sample_rate], den |-> M] :
          idx \in dominant }

\* np.isclose(a, b, atol=atol) with a = num/den and the default rtol = 1e-5:
\* |a - b| <= atol + 1e-5 * |b|, for b >= 0
IsClose(num, den, b, atol) ==
  Abs(num - b * den) - atol * den <= (b * den) \div 100000

\* the condition of lines 79-80 for one table entry, evaluated left to right
\* with Python's short-circuit 'and' / 'or'; indexing dominant_freqs past its
\* end raises IndexError
EntryTest(df, e, tol) ==
  LET len == Len(df.num)
      second == IF ~IsClose(df.num[1], df.den, e.high, tol) THEN "no"
                ELSE IF len < 2 THEN "IndexError"
                ELSE IF IsClose(df.num[2], df.den, e.low, tol) THEN "match"
                ELSE "no"
  IN  IF len < 1 THEN "IndexError"
      ELSE IF ~IsClose(df.num[1], df.den, e.low, tol) THEN second
      ELSE IF len < 2 THEN "IndexError"
      ELSE IF IsClose(df.num[2], df.den, e.high, tol) THEN "match"
      ELSE second

\* lines 78-83: the loop over DTMF_FREQS.items() from entry i on
RECURSIVE MatchFrom(_, _, _, _)
MatchFrom(tab, df, tol, i) ==
  IF i > Len(tab) THEN NoneResult
  ELSE LET t == EntryTest(df, tab[i], tol)
       IN  IF t = "IndexError" THEN IndexError
           ELSE IF t = "match" THEN KeyResult(tab[i].key)
           ELSE MatchFrom(tab, df, tol, i + 1)

MatchKey(tab, df, tol) == MatchFrom(tab, df, tol, 1)

\* identify_dtmf_key(audio_data, sample_rate, tolerance) run from start to
\* end against the table tab: the outcomes it can have
identify_dtmf_key(tab, audio_data, sample_rate, tolerance) ==
  IF Len(audio_data) = 0 THEN { EmptyFFTError }
  ELSE { MatchKey(tab, df, tolerance) : df \in DominantFreqs(audio_data, sample_rate) }

\* generate_dtmf_tone(key, sample_rate, duration) run from start to end
\* against the table tab, duration = dn/dd, nan the build's cast of NaN
generate_dtmf_tone(tab, nan, key, sample_rate, dn, dd) ==
  IF ~HasKey(tab, key) THEN InvalidKeyError
  ELSE LET e == Lookup(tab, key)
           N == SampleCount(sample_rate, dn, dd)
           dtmf_tone == DtmfTone(e.low, e.high, N, dn, dd)
           peak == PeakOf(dtmf_tone, 1, N)
       IN  IF N = 0 THEN ZeroSizeError
           ELSE ToneResult(Normalize(dtmf_tone, peak, nan), sample_rate)

\* the defaults of the signatures at lines 15 and 67
DefaultSampleRate == 8000
DefaultTolerance == 20


----------------------------------------------------------------------------
(* Callers and their calls *)

Callers == 1..NumCallers

NoCall == [op |-> "none"]
NoLocals == [at |-> "none"]

\* values a float -> int16 cast of NaN produces (x86: 0 or the "integer
\* indefinite" value truncated; some builds saturate to the minimum)
NanCasts == {0, -32768}

Config(sr, dn, dd) == [sample_rate |-> sr, dn |-> dn, dd |-> dd]

TypeOK ==
  /\ pc \in [Callers -> {"idle", "generate", "synth", "identify", "match", "done"}]
  /\ nanCast \in {<< >>} \cup { <<v>> : v \in NanCasts }
  /\ DOMAIN call = Callers /\ DOMAIN local = Callers /\ DOMAIN ret = Callers

Init ==
  /\ table = DTMF_FREQS
  /\ nanCast = << >>
  /\ pc = [c \in Callers |-> "idle"]
  /\ call = [c \in Callers |-> NoCall]
  /\ local = [c \in Callers |-> NoLocals]
  /\ ret = [c \in Callers |-> NoValue]

\* a caller invokes generate_dtmf_tone(key, sample_rate, duration)
CallGenerate(c, keys, configs) ==
  /\ pc[c] = "idle"
  /\ \E key \in keys, cfg \in configs :
       call' = [call EXCEPT ![c] = [op |-> "generate", key |-> key,
                                    sample_rate |-> cfg.sample_rate,
                                    dn |-> cfg.dn, dd |-> cfg.dd]]
  /\ pc' = [pc EXCEPT ![c] = "generate"]
  /\ local' = [local EXCEPT ![c] = NoLocals]
  /\ ret' = [ret EXCEPT ![c] = NoValue]
  /\ UNCHANGED <<table, nanCast>>

\* a faulty lookup: DTMF_FREQS.pop(key) takes the entry out of the table
GenLookupPop(c) ==
  /\ pc[c] = "generate"
  /\ IF ~HasKey(table, call[c].key)
     THEN /\ ret' = [ret EXCEPT ![c] = InvalidKeyError]
          /\ pc' = [pc EXCEPT ![c] = "done"]
          /\ UNCHANGED <<local, table>>
     ELSE /\ local' = [local EXCEPT ![c] =
                         [at |-> "synth",
                          low_freq |-> Lookup(table, call[c].key).low,
                          high_freq |-> Lookup(table, call[c].key).high]]
          /\ table' = SelectSeq(table, LAMBDA e : e.key # call[c].key)
          /\ pc' = [pc EXCEPT ![c] = "synth"]
          /\ UNCHANGED ret
  /\ UNCHANGED <<nanCast, call>>

\* lines 16-19: the key check and the table lookup
GenLookup(c) ==
  /\ pc[c] = "generate"
  /\ IF ~HasKey(table, call[c].key)
     THEN /\ ret' = [ret EXCEPT ![c] = InvalidKeyError]
          /\ pc' = [pc EXCEPT ![c] = "done"]
          /\ UNCHANGED local
     ELSE /\ local' = [local EXCEPT ![c] =
                         [at |-> "synth",
                          low_freq |-> Lookup(table, call[c].key).low,
                          high_freq |-> Lookup(table, call[c].key).high]]
          /\ pc' = [pc EXCEPT ![c] = "synth"]
          /\ UNCHANGED ret
  /\ UNCHANGED <<table, nanCast, call>>

\* lines 20-29: synthesis and normalisation
GenSynth(c) ==
  /\ pc[c] = "synth"
  /\ LET N == SampleCount(call[c].sample_rate, call[c].dn, call[c].dd)
         dtmf_tone == DtmfTone(local[c].low_freq, local[c].high_freq, N,
                               call[c].dn, call[c].dd)
         peak == PeakOf(dtmf_tone, 1, N)
     IN  IF N = 0
         THEN /\ ret' = [ret EXCEPT ![c] = ZeroSizeError]
              /\ local' = [local EXCEPT ![c] =
                             [at |-> "max", N |-> 0]]
              /\ UNCHANGED nanCast
         ELSE /\ local' = [local EXCEPT ![c] =
                             [at |-> "return", N |-> N, peak |-> peak]]
              /\ IF peak = 0 /\ nanCast = << >>
                 THEN nanCast' \in { <<v>> : v \in NanCasts }
                 ELSE UNCHANGED nanCast
              /\ ret' = [ret EXCEPT ![c] =
                           ToneResult(Normalize(dtmf_tone, peak, nanCast'[1]),
                                      call[c].sample_rate)]
  /\ pc' = [pc EXCEPT ![c] = "done"]
  /\ UNCHANGED <<table, call>>

\* a caller invokes identify_dtmf_key on a buffer it read from a file
CallIdentify(c, buffers, rates, tols) ==
  /\ pc[c] = "idle"
  /\ \E buf \in buffers, sr \in rates, tol \in tols :
       call' = [call EXCEPT ![c] = [op |-> "identify", origin |-> "file",
                                    audio_data |-> buf, sample_rate |-> sr,
                                    tolerance |-> tol]]
  /\ pc' = [pc EXCEPT ![c] = "identify"]
  /\ local' = [local EXCEPT ![c] = NoLocals]
  /\ ret' = [ret EXCEPT ![c] = NoValue]
  /\ UNCHANGED <<table, nanCast>>

\* a caller passes the tone generate_dtmf_tone returned to identify_dtmf_key;
\* origin remembers the key the tone was generated for
FeedIdentify(c, tols) ==
  /\ pc[c] = "done"
  /\ ret[c].kind = "tone"
  /\ \E tol \in tols :
       call' = [call EXCEPT ![c] = [op |-> "identify", origin |-> call[c].key,
                                    audio_data |-> ret[c].samples,
                                    sample_rate |-> ret[c].sample_rate,
                                    tolerance |-> tol]]
  /\ pc' = [pc EXCEPT ![c] = "identify"]
  /\ local' = [local EXCEPT ![c] = NoLocals]
  /\ ret' = [ret EXCEPT ![c] = NoValue]
  /\ UNCHANGED <<table, nanCast>>

\* a faulty spectrum step: the FFT of an empty buffer is an empty spectrum
\* instead of an error
IdentifySpectrumNoCheck(c) ==
  /\ pc[c] = "identify"
  /\ \E df \in IF Len(call[c].audio_data) = 0
                THEN { [num |-> << >>, den |-> 0] }
                ELSE DominantFreqs(call[c].audio_data, call[c].sample_rate) :
       local' = [local EXCEPT ![c] = [at |-> "match", dominant_freqs |-> df]]
  /\ pc' = [pc EXCEPT ![c] = "match"]
  /\ UNCHANGED <<table, nanCast, call, ret>>

\* lines 68-75: the spectrum and its two dominant frequencies
IdentifySpectrum(c) ==
  /\ pc[c] = "identify"
  /\ IF Len(call[c].audio_data) = 0
     THEN /\ ret' = [ret EXCEPT ![c] = EmptyFFTError]
          /\ pc' = [pc EXCEPT ![c] = "done"]
          /\ UNCHANGED local
     ELSE /\ \E df \in DominantFreqs(call[c].audio_data, call[c].sample_rate) :
               local' = [local EXCEPT ![c] = [at |-> "match", dominant_freqs |-> df]]
          /\ pc' = [pc EXCEPT ![c] = "match"]
          /\ UNCHANGED ret
  /\ UNCHANGED <<table, nanCast, call>>

\* lines 77-83: the match against the table
IdentifyMatch(c) ==
  /\ pc[c] = "match"
  /\ ret' = [ret EXCEPT ![c] =
               MatchKey(table, local[c].dominant_freqs, call[c].tolerance)]
  /\ pc' = [pc EXCEPT ![c] = "done"]
  /\ UNCHANGED <<table, nanCast, call, local>>

\* the caller takes the outcome and is free to call again
Return(c) ==
  /\ pc[c] = "done"
  /\ pc' = [pc EXCEPT ![c] = "idle"]
  /\ call' = [call EXCEPT ![c] = NoCall]
  /\ local' = [local EXCEPT ![c] = NoLocals]
  /\ ret' = [ret EXCEPT ![c] = NoValue]
  /\ UNCHANGED <<table, nanCast>>


----------------------------------------------------------------------------
(* Inputs the callers draw from *)

\* the 12 keys and three strings that are no key
Keys == ValidKeys \cup {"A", "", "10"}

\* sample rates and durations (dn/dd seconds) giving 0, 1, 2, 4, 8, 1477 and
\* 4000 samples
GenConfigs ==
  { Config(sr, d[1], d[2]) : sr \in {DefaultSampleRate, 2954},
                             d \in {<<1, 2>>, <<1, 1000>>, <<1, 2000>>, <<1, 8000>>} }

\* sequences of length n over S
RECURSIVE SeqsOfLen(_, _)
SeqsOfLen(S, n) ==
  IF n = 0 THEN { << >> }
  ELSE { Append(b, x) : b \in SeqsOfLen(S, n - 1), x \in S }

\* buffers read from a file: up to MaxLen samples, each a multiple of a
\* quarter of full scale
ExtBuffers ==
  UNION { SeqsOfLen({ a * 8192 : a \in (-MaxAmp)..MaxAmp }, n) : n \in 0..MaxLen }

ExtRates == {DefaultSampleRate, 2954}
Tolerances == {0, DefaultTolerance, 1000}

----------------------------------------------------------------------------
(* Spec: one caller, one call after the other *)

Next ==
  \/ CallGenerate(1, Keys, GenConfigs)
  \/ GenLookup(1)
  \/ GenSynth(1)
  \/ CallIdentify(1, ExtBuffers, ExtRates, Tolerances)
  \/ IdentifySpectrum(1)
  \/ IdentifyMatch(1)
  \/ Return(1)

Spec == Init /\ [][Next]_vars

----------------------------------------------------------------------------
(* SpecPar: NumCallers callers whose calls interleave step by step *)

ParKeys == {"5", "A"}
ParConfigs == { Config(DefaultSampleRate, 1, 2000), Config(DefaultSampleRate, 1, 8000) }
ParBuffers == { << >>, << 8192 >> }

NextPar ==
  \E c \in Callers :
    \/ CallGenerate(c, ParKeys, ParConfigs)
    \/ GenLookup(c)
    \/ GenSynth(c)
    \/ CallIdentify(c, ParBuffers, {DefaultSampleRate}, {DefaultTolerance})
    \/ FeedIdentify(c, {DefaultTolerance})
    \/ IdentifySpectrum(c)
    \/ IdentifyMatch(c)
    \/ Return(c)

SpecPar == Init /\ [][NextPar]_vars

----------------------------------------------------------------------------
(* SpecRT: generate a tone of half a second and identify it *)

RTConfigs == { Config(DefaultSampleRate, 1, 2), Config(2954, 1, 2) }

NextRT ==
  \/ CallGenerate(1, ValidKeys, RTConfigs)
  \/ GenLookup(1)
  \/ GenSynth(1)
  \/ FeedIdentify(1, {DefaultTolerance})
  \/ IdentifySpectrum(1)
  \/ IdentifyMatch(1)
  \/ Return(1)

SpecRT == Init /\ [][NextRT]_vars

----------------------------------------------------------------------------
(* SpecMatch: the matching step of identify_dtmf_key on its own.  The call *)
(* is at line 77 on a recording of 200 s sampled at 4000 Hz: 800000       *)
(* samples, bins 5 mHz apart, two distinct dominant bins.                 *)

CandMargin == 1      \* candidates lie this many Hz around each window's edge

MatchTolerances == {DefaultTolerance, 40}

\* the seven frequencies of lines 8-11
TableFreqs ==
  { DTMF_FREQS[i].low : i \in 1..Len(DTMF_FREQS) }
  \cup { DTMF_FREQS[i].high : i \in 1..Len(DTMF_FREQS) }

\* dominant bins: the table's frequencies, whole Hz around the edges of their
\* tolerance windows, and one bin (5 mHz) beyond the upper edge of each 20 Hz
\* window
Candidates ==
  { 200 * f : f \in TableFreqs }
  \cup { 200 * (f + s * (tol + m)) :
           f \in TableFreqs, s \in {-1, 1}, tol \in MatchTolerances,
           m \in (-CandMargin)..CandMargin }
  \cup { 200 * (f + DefaultTolerance) + 1 : f \in TableFreqs }

InitMatch ==
  /\ table = DTMF_FREQS
  /\ nanCast = << >>
  /\ pc = [c \in Callers |-> IF c = 1 THEN "match" ELSE "idle"]
  /\ \E k1 \in Candidates, tol \in MatchTolerances : \E k2 \in Candidates \ {k1} :
       /\ call = [c \in Callers |->
                    IF c = 1 THEN [op |-> "identify", origin |-> "recording",
                                   sample_rate |-> 4000, tolerance |-> tol]
                    ELSE NoCall]
       /\ local = [c \in Callers |->
                     IF c = 1 THEN [at |-> "match",
                                    dominant_freqs |-> [num |-> <<k1 * 4000, k2 * 4000>>,
                                                        den |-> 800000]]
                     ELSE NoLocals]
  /\ ret = [c \in Callers |-> NoValue]

NextMatch == IdentifyMatch(1)

SpecMatch == InitMatch /\ [][NextMatch]_vars

----------------------------------------------------------------------------
(* Properties of generate_dtmf_tone *)

\* the finished call of caller c is a generate_dtmf_tone call
GenDone(c) == pc[c] = "done" /\ call[c].op = "generate"

\* the finished call of caller c is an identify_dtmf_key call
IdDone(c) == pc[c] = "done" /\ call[c].op = "identify"

\* C2: generate_dtmf_tone called with a key that is none of the 12 glyphs
\* 0-9, *, # raises the invalid-key error before any sample is computed (no
\* local of the synthesis exists, no buffer is returned), and called with one
\* of the 12 glyphs it never raises that error.
C2_InvalidKeyRejected ==
  \A c \in Callers :
    /\ GenDone(c) =>
         IF call[c].key \in {"0", "1", "2", "3", "4", "5", "6", "7", "8", "9", "*", "#"}
         THEN ret[c] # InvalidKeyError
         ELSE ret[c] = InvalidKeyError /\ local[c] = NoLocals
    /\ pc[c] = "synth" =>
         call[c].key \in {"0", "1", "2", "3", "4", "5", "6", "7", "8", "9", "*", "#"}

\* the key "10" has been rejected
C2_Witness ==
  GenDone(1) /\ call[1].key = "10" /\ ret[1] = InvalidKeyError

\* C5: whenever the un-normalised waveform has peak 0, generate_dtmf_tone
\* raises an error and returns no buffer.
C5_ZeroPeakFails ==
  \A c \in Callers :
    (GenDone(c) /\ local[c].at = "return" /\ local[c].peak = 0)
      => ret[c].kind = "raise"

\* C6: every sample of a returned buffer lies in [-32768, 32767] and at
\* least one sample has magnitude exactly 32767.
C6_SamplesSaturate ==
  \A c \in Callers :
    (GenDone(c) /\ ret[c].kind = "tone") =>
      /\ \A n \in 1..Len(ret[c].samples) : ret[c].samples[n] \in (-32768)..32767
      /\ \E n \in 1..Len(ret[c].samples) : Abs(ret[c].samples[n]) = 32767

\* C7: a buffer returned by generate_dtmf_tone has exactly
\* floor(sample_rate x duration) samples (4000 for 8000 Hz and 0.5 s), and
\* the sample rate returned with it is the sample_rate argument.
C7_ToneLength ==
  \A c \in Callers :
    (GenDone(c) /\ ret[c].kind = "tone") =>
      /\ Len(ret[c].samples) = (call[c].sample_rate * call[c].dn) \div call[c].dd
      /\ ret[c].sample_rate = call[c].sample_rate
      /\ (call[c].sample_rate = 8000 /\ call[c].dn = 1 /\ call[c].dd = 2)
            => Len(ret[c].samples) = 4000

\* '5' at 8000 Hz for half a second came back as 4000 samples
C7_Witness ==
  /\ GenDone(1) /\ call[1].key = "5"
  /\ call[1].sample_rate = 8000 /\ call[1].dn = 1 /\ call[1].dd = 2
  /\ ret[1].kind = "tone" /\ Len(ret[1].samples) = 4000

----------------------------------------------------------------------------
(* Properties of identify_dtmf_key *)

C4_ShortBufferUnrecognized ==
  \A c \in Callers :
    (IdDone(c) /\ Len(call[c].audio_data) \in 1..3) => ret[c] = NoneResult

\* C9: the matching step returns the first key in table order whose pair
\* satisfies (|c1 - low| <= tol and |c2 - high| <= tol) or (|c1 - high| <=
\* tol and |c2 - low| <= tol) with no relative slack, returns None exactly
\* when no key satisfies it, and so gives the same result for (c2, c1).
C9_AbsoluteFirstMatch ==
  \A c \in Callers :
    (pc[c] = "done" /\ local[c].at = "match" /\ Len(local[c].dominant_freqs.num) = 2) =>
      LET df == local[c].dominant_freqs
          tol == call[c].tolerance
          near(i, f) == Abs(df.num[i] - f * df.den) <= tol * df.den
          ok(e, i, j) == near(i, e.low) /\ near(j, e.high)
          hits == { i \in 1..Len(table) : ok(table[i], 1, 2) \/ ok(table[i], 2, 1) }
          first == CHOOSE i \in hits : \A j \in hits : i <= j
          fd == [num |-> <<df.num[2], df.num[1]>>, den |-> df.den]
      IN  /\ ret[c] = IF hits = {} THEN NoneResult ELSE KeyResult(table[first].key)
          /\ ret[c] = MatchKey(table, fd, tol)

\* C10: with the 12-entry table and the default tolerance of 20 Hz at most
\* one entry passes the test of lines 79-80, in either ordering of the two
\* dominant frequencies, no two entries share a (low, high) pair, and the
\* result of the loop is that one entry's key (None when there is none), the
\* same when the table is iterated in the reverse order.
C10_UniqueMatch ==
  /\ \A i, j \in 1..Len(table) :
       (table[i].low = table[j].low /\ table[i].high = table[j].high) => i = j
  /\ \A c \in Callers :
       (pc[c] = "done" /\ local[c].at = "match"
          /\ call[c].tolerance = DefaultTolerance) =>
         LET df == local[c].dominant_freqs
             fd == [num |-> <<df.num[2], df.num[1]>>, den |-> df.den]
             hits == { i \in 1..Len(table) :
                         \/ EntryTest(df, table[i], DefaultTolerance) = "match"
                         \/ EntryTest(fd, table[i], DefaultTolerance) = "match" }
             reversed == [i \in 1..Len(table) |-> table[Len(table) + 1 - i]]
         IN  /\ Cardinality(hits) <= 1
             /\ ret[c] = IF hits = {} THEN NoneResult
                         ELSE KeyResult(table[CHOOSE i \in hits : TRUE].key)
             /\ ret[c] = MatchKey(reversed, df, DefaultTolerance)

\* dominant frequencies 961 Hz and 1457 Hz, each 20 Hz off, matched '#'
C10_Witness ==
  /\ pc[1] = "done" /\ local[1].at = "match"
  /\ call[1].tolerance = DefaultTolerance
  /\ local[1].dominant_freqs.num = <<961 * 800000, 1457 * 800000>>
  /\ ret[1] = KeyResult("#")

----------------------------------------------------------------------------
(* Properties of the two functions together *)

C8_Stateless ==
  /\ table = DTMF_FREQS
  /\ Len(table) = 12
  /\ \A c \in Callers :
       pc[c] = "done" =>
         IF call[c].op = "generate"
         THEN ret[c] = generate_dtmf_tone(DTMF_FREQS,
                                          IF nanCast = << >> THEN 0 ELSE nanCast[1],
                                          call[c].key, call[c].sample_rate,
                                          call[c].dn, call[c].dd)
         ELSE identify_dtmf_key(DTMF_FREQS, call[c].audio_data,
                                call[c].sample_rate, call[c].tolerance) = { ret[c] }

\* caller 1 holds a generated tone while caller 2, whose call overlapped,
\* holds a failure
C8_Witness ==
  /\ GenDone(1) /\ ret[1].kind = "tone" /\ Len(ret[1].samples) = 4
  /\ pc[2] = "done" /\ ret[2].kind = "raise"

====
